---- MODULE Spec2Model ----
(***************************************************************************)
(* Model of the phonebook backend (src/phonebook/phonebook/app.py): two    *)
(* SQLite tables, contacts and contact_methods, and the Flask handlers     *)
(* that read and write them.  Every handler opens its own connection, so   *)
(* its statements form one implicit transaction that ends at conn.commit() *)
(* or is rolled back when the handler leaves without committing.           *)
(* Spec serves the requests one after the other: a handler runs to its     *)
(* return, its response is sent, and the next request is taken.  The       *)
(* interleavings of handlers that run at the same time are not part of     *)
(* Spec.                                                                   *)
(*                                                                         *)
(* SQLite enforces the schema's FOREIGN KEY clause only on a connection    *)
(* whose foreign_keys pragma is on.  No handler sets the pragma, so its     *)
(* value is the default of the SQLite build: off, unless the library was   *)
(* compiled with SQLITE_DEFAULT_FOREIGN_KEYS=1.  foreign_keys is that      *)
(* default; both builds are modelled.                                      *)
(*                                                                         *)
(* Text is modelled as a sequence of one-character strings so that         *)
(* str.strip() is computed, not assumed.                                   *)
(***************************************************************************)
EXTENDS Integers, Sequences, FiniteSets, TLC

VARIABLES contacts, contact_methods, sqlite_sequence, foreign_keys, response, prev,
          history, threads, writer, committed

vars == <<contacts, contact_methods, sqlite_sequence, foreign_keys, response, prev,
          history, threads, writer, committed>>

(***************************************************************************)
(* Bounds of the model.                                                    *)
(***************************************************************************)
\* largest contacts.id the store hands out
MaxContactId == 2
\* largest contact_methods.id the store hands out
MaxMethodId == 3
\* longest methods array of a request body
MaxMethods == 2
\* most data rows of an uploaded CSV file
MaxRows == 2
MaxThreads == 2

(***************************************************************************)
(* Python values.                                                          *)
(***************************************************************************)
\* Python None / SQL NULL: no text contains the element "None".  dict.get
\* returns it for a key the JSON object does not carry.
None == <<"None">>

\* a JSON object used as a method's type or value: truthy in Python, but
\* sqlite3 cannot bind it as a statement parameter
JsonObject == <<"JsonObject">>

\* Python truthiness of a str or None
Truthy(v) == v \notin {None, <<>>}

\* whether sqlite3 accepts v as a parameter of execute()
Bindable(v) == v # JsonObject

RECURSIVE lstrip(_)
lstrip(s) == IF s # <<>> /\ Head(s) = " " THEN lstrip(Tail(s)) ELSE s

RECURSIVE rstrip(_)
rstrip(s) == IF s # <<>> /\ s[Len(s)] = " " THEN rstrip(SubSeq(s, 1, Len(s) - 1)) ELSE s

\* str.strip()
strip(s) == rstrip(lstrip(s))

\* str(raw_address).strip() if raw_address is not None else None
CoerceAddress(raw_address) == IF raw_address = None THEN None ELSE strip(raw_address)

\* bool(n) of an INTEGER column
BoolOfInt(n) == n # 0

\* what fetchone() returns when no row matches (Python None, falsy)
NoRow == <<>>

\* bool(row) of what fetchone() returned: NoRow, or the tuple of the selected
\* columns, which is truthy whatever the columns hold
BoolOfRow(row) == Len(row) > 0

phone == <<"p", "h", "o", "n", "e">>
email == <<"e", "m", "a", "i", "l">>
addressType == <<"a", "d", "d", "r", "e", "s", "s">>

(***************************************************************************)
(* The store.  A database value db is what one connection sees: the two    *)
(* tables and the AUTOINCREMENT counters.  Rows are kept in rowid order,   *)
(* the order in which SQLite scans a table for a SELECT without ORDER BY.  *)
(***************************************************************************)
\* the tables as init_db creates them
EmptyDb == [contacts |-> <<>>, contact_methods |-> <<>>,
            sqlite_sequence |-> [contacts |-> 0, contact_methods |-> 0]]

\* the committed content of the database file
Store == [contacts |-> contacts, contact_methods |-> contact_methods,
          sqlite_sequence |-> sqlite_sequence]

RECURSIVE Where(_, _, _)
\* the rows of table with row[f] = v, in rowid order
Where(table, f, v) ==
    IF table = <<>> THEN <<>>
    ELSE IF Head(table)[f] = v
         THEN <<Head(table)>> \o Where(Tail(table), f, v)
         ELSE Where(Tail(table), f, v)

RECURSIVE WhereNot(_, _, _)
\* the rows of table with row[f] # v, in rowid order
WhereNot(table, f, v) ==
    IF table = <<>> THEN <<>>
    ELSE IF Head(table)[f] # v
         THEN <<Head(table)>> \o WhereNot(Tail(table), f, v)
         ELSE WhereNot(Tail(table), f, v)

\* ids of the contact rows of db
ContactIds(db) == {db.contacts[i].id : i \in 1..Len(db.contacts)}

\* INSERT INTO contacts (name, address) VALUES (?, ?): is_favorite DEFAULT 0,
\* InsertContact on a table declared without AUTOINCREMENT: the new rowid is
\* one more than the largest rowid in the table
InsertContactMaxRowid(db, name, address) ==
    LET ids == {db.contacts[i].id : i \in 1..Len(db.contacts)}
        id == IF ids = {} THEN 1 ELSE 1 + CHOOSE m \in ids : \A n \in ids : n <= m
    IN [db EXCEPT !.contacts = Append(@, [id |-> id, name |-> name,
                                          address |-> address, is_favorite |-> 0]),
                  !.sqlite_sequence.contacts = id]

\* id INTEGER PRIMARY KEY AUTOINCREMENT; cursor.lastrowid is the new
\* sqlite_sequence.contacts
InsertContact(db, name, address) ==
    LET id == db.sqlite_sequence.contacts + 1
    IN [db EXCEPT !.contacts = Append(@, [id |-> id, name |-> name,
                                          address |-> address, is_favorite |-> 0]),
                  !.sqlite_sequence.contacts = id]

\* whether INSERT INTO contact_methods (...) VALUES (contact_id, type, value)
\* raises: a parameter sqlite3 cannot bind, a NOT NULL column given None, or
\* (foreign keys enforced) a contact_id without a contacts row
InsertMethodRaises(db, fk, contact_id, type, value) ==
    \/ ~Bindable(type) \/ ~Bindable(value)
    \/ type = None \/ value = None
    \/ fk /\ contact_id \notin ContactIds(db)

\* InsertMethod with the parameters of type and value in each other's place
InsertMethodSwapped(db, contact_id, type, value) ==
    LET id == db.sqlite_sequence.contact_methods + 1
    IN [db EXCEPT !.contact_methods = Append(@, [id |-> id, contact_id |-> contact_id,
                                                 method_type |-> value, value |-> type]),
                  !.sqlite_sequence.contact_methods = id]

\* INSERT INTO contact_methods (contact_id, method_type, value) VALUES (?, ?, ?)
InsertMethod(db, contact_id, type, value) ==
    LET id == db.sqlite_sequence.contact_methods + 1
    IN [db EXCEPT !.contact_methods = Append(@, [id |-> id, contact_id |-> contact_id,
                                                 method_type |-> type, value |-> value]),
                  !.sqlite_sequence.contact_methods = id]

\* UpdateContact as a REPLACE INTO contacts (id, name, address): the columns
\* not named get their defaults
UpdateContactReplacing(db, name, address, contact_id) ==
    [db EXCEPT !.contacts = [i \in 1..Len(@) |->
        IF @[i].id = contact_id
        THEN [@[i] EXCEPT !.name = name, !.address = address, !.is_favorite = 0]
        ELSE @[i]]]

\* UPDATE contacts SET name = ?, address = ? WHERE id = ?
UpdateContact(db, name, address, contact_id) ==
    [db EXCEPT !.contacts = [i \in 1..Len(@) |->
        IF @[i].id = contact_id
        THEN [@[i] EXCEPT !.name = name, !.address = address]
        ELSE @[i]]]

\* UPDATE contacts SET is_favorite = ? WHERE id = ?
UpdateFavorite(db, new_status, contact_id) ==
    [db EXCEPT !.contacts = [i \in 1..Len(@) |->
        IF @[i].id = contact_id
        THEN [@[i] EXCEPT !.is_favorite = new_status]
        ELSE @[i]]]

\* DeleteMethods with the DELETE statement left out
DeleteMethodsNothing(db, contact_id) == db

\* DELETE FROM contact_methods WHERE contact_id = ?
DeleteMethods(db, contact_id) ==
    [db EXCEPT !.contact_methods = WhereNot(@, "contact_id", contact_id)]

\* DELETE FROM contacts WHERE id = ?  The schema declares contact_methods
\* .contact_id ON DELETE CASCADE; SQLite acts on it only on a connection whose
\* foreign_keys pragma is on (fk)
DeleteContact(db, fk, contact_id) ==
    LET gone == [db EXCEPT !.contacts = WhereNot(@, "id", contact_id)]
    IN IF fk /\ contact_id \in ContactIds(db) THEN DeleteMethods(gone, contact_id) ELSE gone

\* SelectExists without its WHERE clause on a table that has rows
SelectExistsAlways(db, contact_id) == <<1>>

\* SELECT 1 FROM contacts WHERE id = ?  .fetchone()
SelectExists(db, contact_id) ==
    IF contact_id \in ContactIds(db) THEN <<1>> ELSE NoRow

\* SelectFavorite as an aggregate query, which yields a row for any id
SelectFavoriteAggregate(db, contact_id) ==
    LET rows == Where(db.contacts, "id", contact_id)
    IN IF rows = <<>> THEN <<0>> ELSE <<rows[1].is_favorite>>

\* SELECT is_favorite FROM contacts WHERE id = ?  .fetchone()
SelectFavorite(db, contact_id) ==
    LET rows == Where(db.contacts, "id", contact_id)
    IN IF rows = <<>> THEN NoRow ELSE <<rows[1].is_favorite>>

\* the ids stay within the bounds of the model
Bounded(db) ==
    /\ db.sqlite_sequence.contacts <= MaxContactId
    /\ db.sqlite_sequence.contact_methods <= MaxMethodId

(***************************************************************************)
(* Requests and responses.                                                 *)
(***************************************************************************)
\* the (name, address) pairs of the request bodies: a name that is empty
\* after strip(), one that strip() shortens, one with an address
NamesAndAddresses ==
    { [name |-> <<" ">>, address |-> None],
      [name |-> <<" ", "A", " ">>, address |-> None],
      [name |-> <<"B">>, address |-> <<" ", "X">>] }

MethodEntries ==
    { [type |-> phone, value |-> <<"1">>],
      [type |-> email, value |-> <<"2">>],
      [type |-> None, value |-> <<"3">>],
      [type |-> phone, value |-> JsonObject] }

MethodLists == UNION {[1..n -> MethodEntries] : n \in 0..MaxMethods}

\* request.get_json(): an empty body (falsy), or an object with name,
\* address and methods; methods is a list (is_list) or some other JSON
\* value.  A body without a methods key reads as the empty list.
JsonBodies ==
    {[empty |-> TRUE, name |-> <<>>, address |-> None, is_list |-> TRUE, methods |-> <<>>]}
    \cup {[empty |-> FALSE, name |-> na.name, address |-> na.address,
           is_list |-> TRUE, methods |-> ms] : na \in NamesAndAddresses, ms \in MethodLists}
    \cup {[empty |-> FALSE, name |-> na.name, address |-> na.address,
           is_list |-> FALSE, methods |-> <<>>] : na \in NamesAndAddresses}

\* the columns 姓名 (name), 电话 (phone), 邮箱 (email), 住址 (address)
required_fields == {"xingming", "dianhua", "youxiang", "zhuzhi"}

\* the rows csv.DictReader yields: the four columns of a row (None for a
\* column a short row lacks), or csv_error for a row the reader rejects
CsvRows ==
    { [csv_error |-> FALSE, xingming |-> <<"A", " ">>, dianhua |-> <<"1">>,
       youxiang |-> <<" ", "2">>, zhuzhi |-> <<"X">>],
      [csv_error |-> FALSE, xingming |-> <<" ">>, dianhua |-> <<"1">>,
       youxiang |-> <<>>, zhuzhi |-> None],
      [csv_error |-> FALSE, xingming |-> <<"B">>, dianhua |-> <<>>,
       youxiang |-> <<"2">>, zhuzhi |-> None],
      [csv_error |-> TRUE, xingming |-> None, dianhua |-> None,
       youxiang |-> None, zhuzhi |-> None] }

CsvRowLists == UNION {[1..n -> CsvRows] : n \in 0..MaxRows}

CsvName == <<"A", ".", "C", "S", "V">>

\* request.files: no file, or a file with its filename and content; bom: the
\* content starts with EF BB BF; utf8: what follows decodes as UTF-8;
\* fieldnames and rows: what csv.DictReader reads from the decoded text
Uploads ==
    { [has_file |-> h, filename |-> f, bom |-> FALSE, utf8 |-> TRUE,
       fieldnames |-> required_fields, rows |-> <<>>] :
         h \in BOOLEAN, f \in {<<>>, <<"a", ".", "t", "x", "t">>} }
    \cup { [has_file |-> TRUE, filename |-> CsvName, bom |-> b, utf8 |-> FALSE,
            fieldnames |-> {}, rows |-> <<>>] : b \in BOOLEAN }
    \cup { [has_file |-> TRUE, filename |-> CsvName, bom |-> TRUE, utf8 |-> TRUE,
            fieldnames |-> fs, rows |-> rs] :
              fs \in {{}, required_fields \ {"zhuzhi"}, {"xingming", "zhuzhi"}},
              rs \in [1..1 -> CsvRows] }
    \cup { [has_file |-> TRUE, filename |-> CsvName, bom |-> FALSE, utf8 |-> TRUE,
            fieldnames |-> fs, rows |-> rs] :
              fs \in {required_fields, required_fields \cup {"beizhu"}},
              rs \in CsvRowLists }

\* the <int:contact_id> of a URL
ContactIdsOfUrls == 1..MaxContactId

\* no handler has returned: the server waits for a request
NoResponse == [op |-> "none", status |-> 0]

\* what is remembered of the response sent last: a successful toggle_favorite
\* (with the is_favorite it read and the one it returned), or that it was none
Summary(r) ==
    IF r.op = "toggle_favorite" /\ r.status = 200
    THEN [op |-> r.op, contact_id |-> r.contact_id, row |-> r.row,
          is_favorite |-> r.is_favorite]
    ELSE [op |-> "other", contact_id |-> 0, row |-> NoRow, is_favorite |-> FALSE]

\* the body of a request without JSON
NoBody == [empty |-> TRUE, name |-> <<>>, address |-> None, is_list |-> TRUE, methods |-> <<>>]

\* the threads of the development server (app.run serves each request in a
\* thread of its own)
Threads == 1..MaxThreads

\* a thread that serves no request: pc, where the handler stands; req, the
\* request; row, rows, entries and tx, the handler's locals (tx is what its
\* connection sees of the database inside its open transaction); result,
\* what the handler returned
IdleThread ==
    [pc |-> "idle", req |-> [op |-> "none", contact_id |-> 0, data |-> NoBody],
     row |-> NoRow, tx |-> EmptyDb, rows |-> <<>>, entries |-> <<>>,
     result |-> NoResponse]

\* what the requests so far did, kept for the properties (no handler reads
\* it): toggled, the ids of the contacts in the table that PUT .../favorite
\* was answered 200 for an odd number of times; assigned, every id a
\* committed contacts row has had
NoHistory == [toggled |-> {}, assigned |-> {}]

\* the history after the handler returned r and the file holds contacts'
RecordHistory(r) ==
    LET ids == {contacts'[i].id : i \in 1..Len(contacts')}
        flipped == IF r.contact_id \in history.toggled
                   THEN history.toggled \ {r.contact_id}
                   ELSE history.toggled \cup {r.contact_id}
    IN history' =
         [toggled |-> IF r.op = "toggle_favorite" /\ r.status = 200 THEN flipped
                      ELSE history.toggled \cap ids,
          assigned |-> history.assigned \cup ids]

Init ==
    /\ contacts = EmptyDb.contacts
    /\ contact_methods = EmptyDb.contact_methods
    /\ sqlite_sequence = EmptyDb.sqlite_sequence
    /\ foreign_keys \in BOOLEAN
    /\ response = NoResponse
    /\ prev = Summary(NoResponse)
    /\ history = NoHistory
    /\ threads = [t \in Threads |-> IdleThread]
    /\ writer = 0
    /\ committed = {}

\* conn.commit(): the transaction's view tx becomes the content of the file
Commit(tx) ==
    /\ contacts' = tx.contacts
    /\ contact_methods' = tx.contact_methods
    /\ sqlite_sequence' = tx.sqlite_sequence

\* Leave on a connection in autocommit mode: every statement issued so far
\* is already in the file
LeaveCommitting(tx) == Commit(tx)

\* the handler returns or raises without conn.commit(): what the transaction
\* tx wrote never reaches the file (no other connection sees it, and it is
\* rolled back when the connection is closed or finalized)
Leave(tx) == UNCHANGED <<contacts, contact_methods, sqlite_sequence>>

\* the handler returns r; the fields op, contact_id, data and row of r are
\* the request and the handler's locals, the others the status and the JSON
Respond(r) ==
    /\ response' = r
    /\ RecordHistory(r)
    /\ UNCHANGED <<foreign_keys, prev, threads, writer, committed>>

\* the response is sent to the client and the server takes the next request
SendResponse ==
    /\ response # NoResponse
    /\ response' = NoResponse
    /\ prev' = Summary(response)
    /\ UNCHANGED <<contacts, contact_methods, sqlite_sequence, foreign_keys, history,
                   threads, writer, committed>>

(***************************************************************************)
(* GET /contacts, GET /contacts/favorites                                  *)
(***************************************************************************)
get_contact_with_methods(db, contact_row) ==
    LET methods == Where(db.contact_methods, "contact_id", contact_row.id)
    IN [id |-> contact_row.id, name |-> contact_row.name,
        address |-> contact_row.address,
        is_favorite |-> BoolOfInt(contact_row.is_favorite),
        methods |-> [i \in 1..Len(methods) |->
                        [type |-> methods[i].method_type, value |-> methods[i].value]]]

\* the JSON array of GET /contacts
ContactList(db) ==
    [i \in 1..Len(db.contacts) |-> get_contact_with_methods(db, db.contacts[i])]

\* the JSON array of GET /contacts/favorites
FavoriteList(db) ==
    LET rows == Where(db.contacts, "is_favorite", 1)
    IN [i \in 1..Len(rows) |-> get_contact_with_methods(db, rows[i])]

get_contacts ==
    /\ Leave(Store)
    /\ Respond([op |-> "get_contacts", status |-> 200, result |-> ContactList(Store)])

get_favorites ==
    /\ Leave(Store)
    /\ Respond([op |-> "get_favorites", status |-> 200, result |-> FavoriteList(Store)])

(***************************************************************************)
(* POST /contacts                                                          *)
(***************************************************************************)
\* MethodsValid with the test of m.get('type') left out
MethodsValidValueOnly(methods) ==
    \A i \in 1..Len(methods) : Truthy(methods[i].value)

\* for m in methods: if not m.get('type') or not m.get('value'): return 400
MethodsValid(methods) ==
    \A i \in 1..Len(methods) : Truthy(methods[i].type) /\ Truthy(methods[i].value)

RECURSIVE InsertMethods(_, _, _, _)
\* for m in methods: cursor.execute("INSERT INTO contact_methods ...")
\* raised = TRUE when an execute raised; the loop ends there
InsertMethods(tx, fk, contact_id, methods) ==
    IF methods = <<>> THEN [db |-> tx, raised |-> FALSE]
    ELSE LET m == Head(methods)
         IN IF InsertMethodRaises(tx, fk, contact_id, m.type, m.value)
            THEN [db |-> tx, raised |-> TRUE]
            ELSE InsertMethods(InsertMethod(tx, contact_id, m.type, m.value),
                               fk, contact_id, Tail(methods))

add_contact(data) ==
    LET name == strip(data.name)
        address == CoerceAddress(data.address)
        methods == data.methods
        req == [op |-> "add_contact", data |-> data]
    IN  IF data.empty
        THEN Leave(Store) /\ Respond(req @@ [status |-> 400, error |-> "body"])
        ELSE IF name = <<>>
        THEN Leave(Store) /\ Respond(req @@ [status |-> 400, error |-> "name"])
        ELSE IF ~data.is_list \/ Len(methods) = 0
        THEN Leave(Store) /\ Respond(req @@ [status |-> 400, error |-> "methods"])
        ELSE IF ~MethodsValid(methods)
        THEN Leave(Store) /\ Respond(req @@ [status |-> 400, error |-> "method"])
        ELSE LET tx1 == InsertContact(Store, name, address)
                 contact_id == tx1.sqlite_sequence.contacts
                 ins == InsertMethods(tx1, foreign_keys, contact_id, methods)
             IN  /\ Bounded(ins.db)
                 /\ IF ins.raised
                    THEN Leave(ins.db) /\ Respond(req @@ [status |-> 500])
                    ELSE /\ Commit(ins.db)
                         /\ Respond(req @@ [status |-> 201, id |-> contact_id,
                                            name |-> name, address |-> address,
                                            is_favorite |-> FALSE, methods |-> methods])

(***************************************************************************)
(* PUT /contacts/<int:contact_id>                                          *)
(***************************************************************************)
RECURSIVE KeepComplete(_)
\* the entries of methods that pass  if m.get('type') and m.get('value')
KeepComplete(methods) ==
    IF methods = <<>> THEN <<>>
    ELSE IF Truthy(Head(methods).type) /\ Truthy(Head(methods).value)
         THEN <<Head(methods)>> \o KeepComplete(Tail(methods))
         ELSE KeepComplete(Tail(methods))

update_contact(contact_id, data) ==
    LET name == strip(data.name)
        address == CoerceAddress(data.address)
        methods == data.methods
        req == [op |-> "update_contact", contact_id |-> contact_id, data |-> data]
        exists == SelectExists(Store, contact_id)
    IN  IF data.empty
        THEN Leave(Store) /\ Respond(req @@ [status |-> 400, error |-> "body"])
        ELSE IF name = <<>>
        THEN Leave(Store) /\ Respond(req @@ [status |-> 400, error |-> "name"])
        ELSE IF ~data.is_list
        THEN Leave(Store) /\ Respond(req @@ [status |-> 400, error |-> "methods"])
        ELSE IF ~BoolOfRow(exists)
        THEN Leave(Store) /\ Respond(req @@ [status |-> 404])
        ELSE LET tx1 == UpdateContact(Store, name, address, contact_id)
                 tx2 == DeleteMethods(tx1, contact_id)
                 ins == InsertMethods(tx2, foreign_keys, contact_id, KeepComplete(methods))
             IN  /\ Bounded(ins.db)
                 /\ IF ins.raised
                    THEN Leave(ins.db) /\ Respond(req @@ [status |-> 500])
                    ELSE /\ Commit(ins.db)
                         /\ Respond(req @@ [status |-> 200, id |-> contact_id,
                                            name |-> name, address |-> address,
                                            is_favorite |-> BoolOfRow(exists),
                                            methods |-> methods])

(***************************************************************************)
(* DELETE /contacts/<int:contact_id>                                       *)
(***************************************************************************)
delete_contact(contact_id) ==
    LET tx == DeleteContact(Store, foreign_keys, contact_id)
        deleted == Len(Store.contacts) - Len(tx.contacts) > 0
        req == [op |-> "delete_contact", contact_id |-> contact_id]
    IN  /\ Commit(tx)
        /\ IF ~deleted
           THEN Respond(req @@ [status |-> 404])
           ELSE Respond(req @@ [status |-> 200])

(***************************************************************************)
(* PUT /contacts/<int:contact_id>/favorite                                 *)
(***************************************************************************)
\* NewStatus with a comparison that never matches the stored integer
NewStatusAlwaysOne(row) == 1

\* new_status = 0 if row[0] == 1 else 1
NewStatus(row) == IF row[1] = 1 THEN 0 ELSE 1

toggle_favorite(contact_id) ==
    LET row == SelectFavorite(Store, contact_id)
        new_status == NewStatus(row)
        req == [op |-> "toggle_favorite", contact_id |-> contact_id]
    IN  IF ~BoolOfRow(row)
        THEN Leave(Store) /\ Respond(req @@ [status |-> 404])
        ELSE /\ Commit(UpdateFavorite(Store, new_status, contact_id))
             /\ Respond(req @@ [status |-> 200, row |-> row,
                                is_favorite |-> BoolOfInt(new_status)])

(***************************************************************************)
(* POST /contacts/import                                                   *)
(***************************************************************************)
\* str.lower() of one character
LowerChar(c) ==
    CASE c = "A" -> "a" [] c = "C" -> "c" [] c = "S" -> "s" [] c = "V" -> "v"
      [] c = "T" -> "t" [] c = "X" -> "x" [] OTHER -> c

\* str.lower()
lower(s) == [i \in 1..Len(s) |-> LowerChar(s[i])]

\* str.endswith(suffix)
endswith(s, suffix) ==
    /\ Len(s) >= Len(suffix)
    /\ SubSeq(s, Len(s) - Len(suffix) + 1, Len(s)) = suffix

\* x or ''
OrEmpty(x) == IF Truthy(x) THEN x ELSE <<>>

\* OrNone without the  or None
OrNoneKeep(x) == x

\* address or None
OrNone(x) == IF Truthy(x) THEN x ELSE None

\* the three  if phone / if email / if address  inserts of one row
ImportMethods(tx, fk, contact_id, ph, em, addr) ==
    InsertMethods(tx, fk, contact_id,
        (IF Truthy(ph) THEN <<[type |-> phone, value |-> ph]>> ELSE <<>>)
        \o (IF Truthy(em) THEN <<[type |-> email, value |-> em]>> ELSE <<>>)
        \o (IF Truthy(addr) THEN <<[type |-> addressType, value |-> addr]>> ELSE <<>>))

RECURSIVE ImportRows(_, _, _, _)
\* for row in reader: ...; a row the csv reader cannot parse raises csv.Error
\* when the loop reaches it
ImportRows(tx, fk, rows, count) ==
    IF rows = <<>> THEN [db |-> tx, raised |-> FALSE, count |-> count]
    ELSE LET row == Head(rows)
             name == strip(OrEmpty(row.xingming))
             ph == strip(OrEmpty(row.dianhua))
             em == strip(OrEmpty(row.youxiang))
             addr == strip(OrEmpty(row.zhuzhi))
             tx1 == InsertContact(tx, name, OrNone(addr))
             ins == ImportMethods(tx1, fk, tx1.sqlite_sequence.contacts, ph, em, addr)
         IN  IF row.csv_error THEN [db |-> tx, raised |-> TRUE, count |-> count]
             ELSE IF name = <<>> THEN ImportRows(tx, fk, Tail(rows), count)
             ELSE IF ins.raised THEN [db |-> ins.db, raised |-> TRUE, count |-> count]
             ELSE ImportRows(ins.db, fk, Tail(rows), count + 1)

import_contacts(upload) ==
    LET req == [op |-> "import_contacts", upload |-> upload]
        run == ImportRows(Store, foreign_keys, upload.rows, 0)
    IN  IF ~upload.has_file
        THEN Leave(Store) /\ Respond(req @@ [status |-> 400, error |-> "file"])
        ELSE IF upload.filename = <<>>
        THEN Leave(Store) /\ Respond(req @@ [status |-> 400, error |-> "filename"])
        ELSE IF ~endswith(lower(upload.filename), <<".", "c", "s", "v">>)
        THEN Leave(Store) /\ Respond(req @@ [status |-> 400, error |-> "extension"])
        ELSE IF ~upload.utf8
        THEN Leave(Store) /\ Respond(req @@ [status |-> 400, error |-> "parse"])
        ELSE IF ~(required_fields \subseteq upload.fieldnames)
        THEN Leave(Store) /\ Respond(req @@ [status |-> 400, error |-> "columns",
                                             columns |-> required_fields])
        ELSE /\ Bounded(run.db)
             /\ IF run.raised
                THEN Leave(run.db) /\ Respond(req @@ [status |-> 400, error |-> "parse"])
                ELSE Commit(run.db) /\ Respond(req @@ [status |-> 200, count |-> run.count])

(***************************************************************************)
(* The requests.                                                           *)
(***************************************************************************)
\* the server is idle: the response of the request before has been sent
Idle == response = NoResponse

ListContacts == Idle /\ get_contacts

ListFavorites == Idle /\ get_favorites

AddContact == Idle /\ \E data \in JsonBodies : add_contact(data)

UpdateContactRequest ==
    Idle /\ \E contact_id \in ContactIdsOfUrls, data \in JsonBodies :
                update_contact(contact_id, data)

DeleteContactRequest ==
    Idle /\ \E contact_id \in ContactIdsOfUrls : delete_contact(contact_id)

ToggleFavorite == Idle /\ \E contact_id \in ContactIdsOfUrls : toggle_favorite(contact_id)

ImportContacts == Idle /\ \E upload \in Uploads : import_contacts(upload)

Next ==
    \/ ListContacts
    \/ ListFavorites
    \/ AddContact
    \/ UpdateContactRequest
    \/ DeleteContactRequest
    \/ ToggleFavorite
    \/ ImportContacts
    \/ SendResponse

Spec == Init /\ [][Next]_vars

(***************************************************************************)
(* The handlers statement by statement, in threads.  Each handler opens a  *)
(* connection of its own.  A SELECT outside a transaction reads the file   *)
(* as it is when the statement runs.  The first UPDATE, DELETE or INSERT   *)
(* of a connection opens a transaction and takes the write lock of the     *)
(* file, which one connection holds at a time (writer); its statements are *)
(* seen by no other connection until conn.commit() writes them to the file *)
(* and gives the lock back.  A statement that needs the lock while another *)
(* connection holds it waits, and raises "database is locked" when the     *)
(* busy timeout passes first.                                              *)
(***************************************************************************)
\* the requests the threads serve, all on the contact of ThreadsInit
ThreadBodies ==
    {d \in JsonBodies :
        \/ d.empty
        \/ /\ d.is_list
           /\ d.name = <<"B">>
           /\ d.methods \in {<<>>, <<[type |-> email, value |-> <<"2">>]>>}}

ThreadRequests ==
    {[op |-> o, contact_id |-> 1, data |-> NoBody] :
        o \in {"toggle_favorite", "delete_contact"}}
    \cup {[op |-> o, contact_id |-> 0, data |-> NoBody] :
        o \in {"get_contacts", "get_favorites"}}
    \cup {[op |-> "update_contact", contact_id |-> 1, data |-> d] : d \in ThreadBodies}

\* the database after POST /contacts {"name": "A", "methods": [phone 1]} on
\* the empty database
CreatedStore ==
    InsertMethods(InsertContact(EmptyDb, <<"A">>, None), FALSE, 1,
                  <<[type |-> phone, value |-> <<"1">>]>>).db

ThreadsInit ==
    /\ contacts = CreatedStore.contacts
    /\ contact_methods = CreatedStore.contact_methods
    /\ sqlite_sequence = CreatedStore.sqlite_sequence
    /\ foreign_keys \in BOOLEAN
    /\ response = NoResponse
    /\ prev = Summary(NoResponse)
    /\ history = [toggled |-> {}, assigned |-> {1}]
    /\ threads = [t \in Threads |-> IdleThread]
    /\ writer = 0
    /\ committed = {CreatedStore}

\* thread t goes on with the locals th
Goto(t, th) ==
    /\ threads' = [threads EXCEPT ![t] = th]
    /\ UNCHANGED <<foreign_keys, response, prev, history>>

\* the handler of thread t returns r
Return(t, r) == Goto(t, [threads[t] EXCEPT !.pc = "done", !.result = r])

\* a statement that reads, or a handler that ends without commit
NoWrite == UNCHANGED <<contacts, contact_methods, sqlite_sequence, writer, committed>>

\* the first writing statement of thread t: its connection takes the write
\* lock and its transaction tx starts from the file
BeginWrite(t, tx) ==
    /\ writer = 0
    /\ Bounded(tx)
    /\ writer' = t
    /\ UNCHANGED <<contacts, contact_methods, sqlite_sequence, committed>>

\* conn.commit() of thread t
CommitWrite(t) ==
    /\ writer = t
    /\ Commit(threads[t].tx)
    /\ writer' = 0
    /\ committed' = committed \cup {threads[t].tx}

\* a thread takes a request
Receive(t) ==
    /\ threads[t].pc = "idle"
    /\ \E req \in ThreadRequests :
         Goto(t, [threads[t] EXCEPT !.pc = "start", !.req = req])
    /\ NoWrite

At(t, op, pc) == threads[t].req.op = op /\ threads[t].pc = pc

\* the write lock is held by another connection until the busy timeout
\* passes: the statement raises sqlite3.OperationalError
Locked(t) ==
    /\ (threads[t].pc = "write" \/ At(t, "delete_contact", "start"))
    /\ writer \notin {0, t}
    /\ Return(t, [status |-> 500])
    /\ NoWrite

\* toggle_favorite: row = cursor.execute("SELECT is_favorite ...").fetchone()
toggle_favorite_select(t) ==
    LET th == threads[t]
        row == SelectFavorite(Store, th.req.contact_id)
    IN  /\ At(t, "toggle_favorite", "start")
        /\ IF ~BoolOfRow(row)
           THEN Return(t, [status |-> 404])
           ELSE Goto(t, [th EXCEPT !.pc = "write", !.row = row])
        /\ NoWrite

\* toggle_favorite: cursor.execute("UPDATE contacts SET is_favorite = ? ...")
\* with the new_status computed from the row read before
toggle_favorite_update(t) ==
    LET th == threads[t]
        tx == UpdateFavorite(Store, NewStatus(th.row), th.req.contact_id)
    IN  /\ At(t, "toggle_favorite", "write")
        /\ BeginWrite(t, tx)
        /\ Goto(t, [th EXCEPT !.pc = "commit", !.tx = tx])

\* toggle_favorite: conn.commit() and the return
toggle_favorite_commit(t) ==
    /\ At(t, "toggle_favorite", "commit")
    /\ CommitWrite(t)
    /\ Return(t, [status |-> 200,
                  is_favorite |-> BoolOfInt(NewStatus(threads[t].row))])

\* update_contact: the checks of the body, then
\* exists = cursor.execute("SELECT 1 FROM contacts WHERE id = ?").fetchone()
update_contact_select(t) ==
    LET th == threads[t]
        data == th.req.data
        exists == SelectExists(Store, th.req.contact_id)
    IN  /\ At(t, "update_contact", "start")
        /\ IF data.empty \/ strip(data.name) = <<>> \/ ~data.is_list
           THEN Return(t, [status |-> 400])
           ELSE IF ~BoolOfRow(exists)
           THEN Return(t, [status |-> 404])
           ELSE Goto(t, [th EXCEPT !.pc = "write", !.row = exists])
        /\ NoWrite

\* update_contact: UPDATE contacts, DELETE FROM contact_methods and the
\* INSERTs of the methods, in the transaction the UPDATE opens; an INSERT that
\* raises ends the handler, and the transaction is rolled back
update_contact_write(t) ==
    LET th == threads[t]
        data == th.req.data
        contact_id == th.req.contact_id
        tx1 == UpdateContact(Store, strip(data.name), CoerceAddress(data.address),
                             contact_id)
        tx2 == DeleteMethods(tx1, contact_id)
        ins == InsertMethods(tx2, foreign_keys, contact_id, KeepComplete(data.methods))
    IN  /\ At(t, "update_contact", "write")
        /\ IF ins.raised
           THEN /\ writer = 0
                /\ Return(t, [status |-> 500])
                /\ NoWrite
           ELSE /\ BeginWrite(t, ins.db)
                /\ Goto(t, [th EXCEPT !.pc = "commit", !.tx = ins.db])

\* update_contact: conn.commit() and the return
update_contact_commit(t) ==
    LET th == threads[t]
    IN  /\ At(t, "update_contact", "commit")
        /\ CommitWrite(t)
        /\ Return(t, [status |-> 200, id |-> th.req.contact_id,
                      name |-> strip(th.req.data.name),
                      address |-> CoerceAddress(th.req.data.address),
                      is_favorite |-> BoolOfRow(th.row),
                      methods |-> th.req.data.methods])

\* delete_contact: cursor.execute("DELETE FROM contacts WHERE id = ?");
\* row keeps cursor.rowcount
delete_contact_delete(t) ==
    LET th == threads[t]
        tx == DeleteContact(Store, foreign_keys, th.req.contact_id)
        rowcount == Len(Store.contacts) - Len(tx.contacts)
    IN  /\ At(t, "delete_contact", "start")
        /\ BeginWrite(t, tx)
        /\ Goto(t, [th EXCEPT !.pc = "commit", !.tx = tx, !.row = <<rowcount>>])

\* delete_contact: conn.commit(), deleted = cursor.rowcount > 0 and the return
delete_contact_commit(t) ==
    /\ At(t, "delete_contact", "commit")
    /\ CommitWrite(t)
    /\ Return(t, [status |-> IF threads[t].row[1] > 0 THEN 200 ELSE 404])

\* get_contacts, get_favorites: rows = cursor.execute("SELECT * FROM contacts
\* [WHERE is_favorite = 1]").fetchall()
get_contacts_select(t) ==
    LET th == threads[t]
        rows == IF th.req.op = "get_favorites"
                THEN Where(Store.contacts, "is_favorite", 1)
                ELSE Store.contacts
    IN  /\ th.req.op \in {"get_contacts", "get_favorites"}
        /\ th.pc = "start"
        /\ Goto(t, [th EXCEPT !.pc = "rows", !.rows = rows])
        /\ NoWrite

\* get_contacts, get_favorites: one get_contact_with_methods(cursor, row) of
\* the list comprehension, with its SELECT on contact_methods
get_contacts_methods(t) ==
    LET th == threads[t]
    IN  /\ th.pc = "rows"
        /\ th.rows # <<>>
        /\ Goto(t, [th EXCEPT !.rows = Tail(@),
                              !.entries = Append(@, get_contact_with_methods(Store, Head(th.rows)))])
        /\ NoWrite

\* get_contacts, get_favorites: return jsonify(contacts)
get_contacts_return(t) ==
    LET th == threads[t]
    IN  /\ th.pc = "rows"
        /\ th.rows = <<>>
        /\ Return(t, [status |-> 200, result |-> th.entries])
        /\ NoWrite

ThreadsNext ==
    \E t \in Threads :
        \/ Receive(t)
        \/ Locked(t)
        \/ toggle_favorite_select(t)
        \/ toggle_favorite_update(t)
        \/ toggle_favorite_commit(t)
        \/ update_contact_select(t)
        \/ update_contact_write(t)
        \/ update_contact_commit(t)
        \/ delete_contact_delete(t)
        \/ delete_contact_commit(t)
        \/ get_contacts_select(t)
        \/ get_contacts_methods(t)
        \/ get_contacts_return(t)

ThreadsSpec == ThreadsInit /\ [][ThreadsNext]_vars

(***************************************************************************)
(* Properties.                                                             *)
(***************************************************************************)
\* the contact_methods rows of db owned by contact_id, in rowid order
MethodRows(db, contact_id) == Where(db.contact_methods, "contact_id", contact_id)

\* the contacts row of db with this id (the id is in ContactIds(db))
ContactRow(db, contact_id) == Where(db.contacts, "id", contact_id)[1]

Succeeded(op) == response.op = op /\ response.status \in {200, 201}

\* C1: after a successful Delete(id), neither the contact row nor any
\* contact_methods row with contact_id = id remains in the store.
C1_DeleteRemovesContactAndMethods ==
    Succeeded("delete_contact") =>
        /\ response.contact_id \notin ContactIds(Store)
        /\ MethodRows(Store, response.contact_id) = <<>>

\* C2: in every reachable state every contact_methods row has the contact_id
\* of a contact row that is in the store (no orphaned method rows).
C2_NoOrphanedMethods ==
    \A i \in 1..Len(contact_methods) :
        contact_methods[i].contact_id \in ContactIds(Store)

\* C3: the is_favorite of a successful Update's result equals the contact's
\* stored is_favorite, for a favorite and for a non-favorite contact.
C3_UpdateReturnsStoredFavorite ==
    Succeeded("update_contact") =>
        response.is_favorite =
            BoolOfInt(ContactRow(Store, response.contact_id).is_favorite)

\* the entry of GET /contacts for contact_id (the id is in ContactIds(db))
ListedContact(db, contact_id) ==
    LET list == ContactList(db)
    IN list[CHOOSE i \in 1..Len(list) : list[i].id = contact_id]

\* a method entry that has a non-empty type and a non-empty value
WellFormedEntry(m) == m.type \notin {None, <<>>} /\ m.value \notin {None, <<>>}

\* the type and value of method rows, as a methods array
AsEntries(rows) ==
    [i \in 1..Len(rows) |-> [type |-> rows[i].method_type, value |-> rows[i].value]]

\* the store after the step
StoreNext == [contacts |-> contacts', contact_methods |-> contact_methods',
              sqlite_sequence |-> sqlite_sequence']

\* C4: after a successful Update, List shows for the contact exactly the
\* supplied entries that have a non-empty type and value, in input order,
\* and none it had before; name and address are the supplied ones.
C4_UpdateReplacesMethods ==
    Succeeded("update_contact") =>
        LET c == ListedContact(Store, response.contact_id)
            d == response.data
        IN  /\ c.methods = SelectSeq(d.methods, WellFormedEntry)
            /\ c.name = strip(d.name)
            /\ c.address = IF d.address = None THEN None ELSE strip(d.address)

\* C4 witness: an Update of two entries succeeded and List shows one of them
C4_Witness ==
    /\ Succeeded("update_contact")
    /\ Len(response.data.methods) = 2
    /\ Len(ListedContact(Store, response.contact_id).methods) = 1

\* C5: the methods in the result of a successful Update or Create are the
\* method rows the operation stored for the contact, in the same order.
C5_ResultEqualsStoredMethods ==
    (Succeeded("update_contact") \/ Succeeded("add_contact")) =>
        response.methods = AsEntries(MethodRows(Store, response.id))

\* C6 as claimed: an Update on an id without a contact row always ends in
\* NotFoundError, whatever its body carries.
C6_UnknownIdAlwaysNotFound ==
    (response.op = "update_contact" /\ response.contact_id \notin ContactIds(Store))
        => response.status = 404

\* a body that update_contact rejects before it looks the id up
InvalidUpdateBody(data) == data.empty \/ strip(data.name) = <<>> \/ ~data.is_list

\* C6 amended: an Update on an id without a contact row changes no row of
\* either table; it ends in ValidationError when the body is empty, the name
\* is empty after trimming or methods is no list, and in NotFoundError
\* otherwise.
C6_UnknownIdUpdateWritesNothing ==
    [][(response'.op = "update_contact" /\ response'.contact_id \notin ContactIds(Store))
        => /\ UNCHANGED <<contacts, contact_methods, sqlite_sequence>>
           /\ response'.status = IF InvalidUpdateBody(response'.data) THEN 400 ELSE 404]_vars

\* C6 witness: an Update with methods to write ended in NotFoundError while
\* the store holds other contacts
C6_Witness ==
    /\ response.op = "update_contact"
    /\ response.status = 404
    /\ Len(SelectSeq(response.data.methods, WellFormedEntry)) > 0
    /\ contacts # <<>>

\* a type or value that is a non-empty string
NonEmptyText(v) == v \notin {None, <<>>, JsonObject}

\* a valid Create input: name non-empty after trim, methods a non-empty list
\* whose entries all have a non-empty type and value
ValidCreateBody(data) ==
    /\ ~data.empty
    /\ strip(data.name) # <<>>
    /\ data.is_list
    /\ Len(data.methods) > 0
    /\ \A i \in 1..Len(data.methods) :
          NonEmptyText(data.methods[i].type) /\ NonEmptyText(data.methods[i].value)

InvalidCreateBody(data) ==
    \/ strip(data.name) = <<>>
    \/ ~data.is_list
    \/ Len(data.methods) = 0
    \/ \E i \in 1..Len(data.methods) : ~WellFormedEntry(data.methods[i])

\* C8: Create ends in ValidationError and leaves both tables (and the id
\* counters) unchanged whenever the name is empty after trimming, methods is
\* empty, missing or no list, or an entry lacks a non-empty type or value.
C8_InvalidCreatePersistsNothing ==
    [][(response'.op = "add_contact" /\ InvalidCreateBody(response'.data)) =>
        /\ response'.status = 400
        /\ UNCHANGED <<contacts, contact_methods, sqlite_sequence>>]_vars

\* C8 witness: a Create was rejected for its second entry, the first being
\* well-formed, while the store holds contacts
C8_Witness ==
    /\ response.op = "add_contact"
    /\ response.status = 400
    /\ Len(response.data.methods) = 2
    /\ WellFormedEntry(response.data.methods[1])
    /\ ~WellFormedEntry(response.data.methods[2])
    /\ strip(response.data.name) # <<>>
    /\ contacts # <<>>

\* C9: Create, Update and Import persist as one unit: a request that does
\* not succeed leaves both tables and the id counters as they were, also
\* when it fails after earlier statements; one that succeeds leaves the
\* contact row together with all of its method rows.
C9_WritesAreAllOrNothing ==
    [][response'.op \in {"add_contact", "update_contact", "import_contacts"} =>
        IF response'.status \in {200, 201}
        THEN CASE response'.op = "add_contact" ->
                    /\ response'.id \in ContactIds(StoreNext)
                    /\ Len(MethodRows(StoreNext, response'.id)) = Len(response'.data.methods)
               [] response'.op = "update_contact" ->
                    /\ response'.id \in ContactIds(StoreNext)
                    /\ Len(MethodRows(StoreNext, response'.id))
                         = Len(SelectSeq(response'.data.methods, WellFormedEntry))
               [] OTHER ->
                    Len(contacts') = Len(contacts) + response'.count
        ELSE UNCHANGED <<contacts, contact_methods, sqlite_sequence>>]_vars

\* C9 witness: a Create failed at the insert of its second method, after the
\* contact row and the first method row had been inserted
C9_Witness ==
    /\ response.op = "add_contact"
    /\ response.status = 500
    /\ Len(response.data.methods) = 2
    /\ NonEmptyText(response.data.methods[1].type)
    /\ NonEmptyText(response.data.methods[1].value)

\* C10: two ToggleFavorite calls in a row on one contact leave is_favorite
\* at its original value and return opposite values, and every successful
\* call returns the value that is stored after it.
C10_ToggleTwiceRestores ==
    Succeeded("toggle_favorite") =>
        LET stored == BoolOfInt(ContactRow(Store, response.contact_id).is_favorite)
        IN  /\ response.is_favorite = stored
            /\ (prev.op = "toggle_favorite" /\ prev.contact_id = response.contact_id) =>
                  /\ stored = BoolOfInt(prev.row[1])
                  /\ response.is_favorite # prev.is_favorite

\* C10 witness: the second of two toggles in a row of a contact that was a
\* favorite before the first
C10_Witness ==
    /\ Succeeded("toggle_favorite")
    /\ prev.op = "toggle_favorite"
    /\ prev.contact_id = response.contact_id
    /\ prev.row = <<1>>

CellText(c) == IF c = None THEN <<>> ELSE strip(c)

\* an upload that reaches the row loop and whose every row parses
WellFormedUpload(u) ==
    /\ u.has_file
    /\ u.filename = CsvName
    /\ u.utf8
    /\ {"xingming", "dianhua", "youxiang", "zhuzhi"} \subseteq u.fieldnames
    /\ \A i \in 1..Len(u.rows) : ~u.rows[i].csv_error

HasName(row) == CellText(row.xingming) # <<>>

\* the method entries a CSV row with a name asks for: phone, email, address
ExpectedMethods(row) ==
    LET entry(t, c) == IF CellText(c) = <<>> THEN <<>>
                       ELSE <<[type |-> t, value |-> CellText(c)]>>
    IN entry(<<"p", "h", "o", "n", "e">>, row.dianhua)
       \o entry(<<"e", "m", "a", "i", "l">>, row.youxiang)
       \o entry(<<"a", "d", "d", "r", "e", "s", "s">>, row.zhuzhi)

RECURSIVE ExpectedMethodRows(_, _)
\* owner, type and value of the method rows asked for by the rows named, whose
\* contacts get the ids, in file order
ExpectedMethodRows(named, ids) ==
    IF named = <<>> THEN <<>>
    ELSE LET es == ExpectedMethods(Head(named))
         IN [k \in 1..Len(es) |-> [contact_id |-> Head(ids), type |-> es[k].type,
                                   value |-> es[k].value]]
            \o ExpectedMethodRows(Tail(named), Tail(ids))

FailingUpload(u) ==
    /\ u.has_file
    /\ u.filename = CsvName
    /\ \/ ~u.utf8
       \/ ~({"xingming", "dianhua", "youxiang", "zhuzhi"} \subseteq u.fieldnames)
       \/ \E i \in 1..Len(u.rows) : u.rows[i].csv_error

\* C13: an Import that fails inserts nothing: when the header lacks a
\* required column, the bytes are not UTF-8 after BOM stripping, or a data
\* row fails to parse after earlier rows were inserted, the request is
\* refused and both tables (and the id counters) are as before the request.
C13_FailedImportInsertsNothing ==
    [][(response'.op = "import_contacts" /\ FailingUpload(response'.upload)) =>
        /\ response'.status = 400
        /\ contacts' = contacts
        /\ contact_methods' = contact_methods
        /\ sqlite_sequence' = sqlite_sequence]_vars

\* C13 witness: an Import was refused at its second row, after its first row
\* (a name and three values) had been inserted in the open transaction
C13_Witness ==
    /\ response.op = "import_contacts"
    /\ response.status = 400
    /\ Len(response.upload.rows) = 2
    /\ {"xingming", "dianhua", "youxiang", "zhuzhi"} \subseteq response.upload.fieldnames
    /\ ~response.upload.rows[1].csv_error
    /\ HasName(response.upload.rows[1])
    /\ response.upload.rows[2].csv_error

\* C14: when the header is not a superset of the required columns, Import is
\* refused with a ValidationError whose set of reported columns equals the
\* required set minus the columns of the header.
C14_ErrorNamesMissingColumns ==
    (/\ response.op = "import_contacts"
     /\ response.upload.has_file
     /\ response.upload.filename = CsvName
     /\ response.upload.utf8
     /\ ~({"xingming", "dianhua", "youxiang", "zhuzhi"} \subseteq response.upload.fieldnames))
    => /\ response.status = 400
       /\ response.error = "columns"
       /\ response.columns =
            {"xingming", "dianhua", "youxiang", "zhuzhi"} \ response.upload.fieldnames

\* the ids of the contacts stored as favorites
StoredFavorites == {contacts[i].id : i \in {j \in 1..Len(contacts) : contacts[j].is_favorite = 1}}

\* C15: a contact's stored is_favorite is false from its creation (Create or
\* Import) and is changed only by ToggleFavorite on that contact, not by an
\* Update of it nor by any operation on other contacts: at every moment the
\* favorites stored, and the contacts ListFavorites returns, are exactly the
\* contacts in the table that were toggled an odd number of times.
C15_FavoritesAreTheOddlyToggled ==
    /\ \A i \in 1..Len(contacts) : contacts[i].is_favorite \in {0, 1}
    /\ StoredFavorites = history.toggled
    /\ response.op = "get_favorites" =>
         /\ {response.result[i].id : i \in 1..Len(response.result)} = history.toggled
         /\ \A i \in 1..Len(response.result) : response.result[i].is_favorite = TRUE

\* C15 witness: an Update of a favorite contact succeeded while another
\* contact, never toggled, is in the table
C15_Witness ==
    /\ Succeeded("update_contact")
    /\ response.contact_id \in history.toggled
    /\ Len(contacts) = 2
    /\ Cardinality(history.toggled) = 1

\* C19: contact ids are unique and never reused: over any sequence of
\* Create, Import and Delete, the id of a new contact is strictly greater
\* than every id a contact has had before, deleted ones included, so the
\* method rows List returns for a new contact are all rows written by the
\* request that created it, none written for an earlier contact.
C19_IdsAreNeverReused ==
    [][/\ \A i, j \in 1..Len(contacts') :
            i # j => contacts'[i].id # contacts'[j].id
       /\ \A i \in 1..Len(contacts') :
            LET id == contacts'[i].id
            IN id \notin ContactIds(Store) =>
                 /\ \A a \in history.assigned : id > a
                 /\ \A k \in 1..Len(contact_methods) : contact_methods[k].contact_id # id
                 /\ Len(ListedContact(StoreNext, id).methods)
                      = Cardinality({k \in 1..Len(contact_methods') :
                            /\ contact_methods'[k].contact_id = id
                            /\ \A m \in 1..Len(contact_methods) :
                                 contact_methods'[k].id > contact_methods[m].id})
      ]_vars

\* C19 witness: a contact was created with a method after the contact with
\* the highest id had been deleted, while method rows written for the
\* deleted contact are still in the table
C19_Witness ==
    /\ Succeeded("add_contact")
    /\ response.id \in ContactIds(Store)
    /\ Len(response.data.methods) > 0
    /\ \E a \in history.assigned :
         /\ a \notin ContactIds(Store)
         /\ MethodRows(Store, a) # <<>>
         /\ \A i \in 1..Len(contacts) : contacts[i].id = response.id

\* the threads whose request op was answered with status
Answered(op, status) ==
    {t \in Threads : /\ threads[t].pc = "done"
                     /\ threads[t].req.op = op
                     /\ threads[t].result.status = status}

\* C16: ToggleFavorite reads and writes is_favorite atomically with respect to
\* other requests: no toggle is lost.  While the contact is in the table its
\* is_favorite, 0 when the threads started, is the parity of the number of
\* toggles that succeeded, and two concurrent toggles that both succeeded
\* returned opposite values.
C16_NoToggleIsLost ==
    LET toggles == Answered("toggle_favorite", 200)
    IN  /\ 1 \in ContactIds(Store) =>
             ContactRow(Store, 1).is_favorite = Cardinality(toggles) % 2
        /\ \A t, u \in toggles :
             (t # u /\ Cardinality(toggles) = 2) =>
                 threads[t].result.is_favorite # threads[u].result.is_favorite

\* C17: Update's existence check guards its writes under interleaving with a
\* Delete of the same id: an Update never reports success for, nor inserts
\* method rows owned by, a contact that is not in the table when the Update's
\* writes are committed.
C17_UpdateNeverWritesForDeletedContact ==
    [][\A t \in Threads :
         (At(t, "update_contact", "commit") /\ threads'[t].pc = "done") =>
            /\ threads'[t].result.status = 200 =>
                 threads[t].req.contact_id \in ContactIds(StoreNext)
            /\ \A k \in 1..Len(contact_methods') :
                 (\A m \in 1..Len(contact_methods) :
                     contact_methods[m].id # contact_methods'[k].id)
                 => contact_methods'[k].contact_id \in ContactIds(StoreNext)]_vars

\* the entry is how some committed state of the database lists a contact
ConsistentEntry(entry) ==
    \E db \in committed :
        \E i \in 1..Len(db.contacts) :
            LET c == get_contact_with_methods(db, db.contacts[i])
            IN /\ c.id = entry.id
               /\ c.name = entry.name
               /\ c.address = entry.address
               /\ c.methods = entry.methods

\* C18: every entry that List or ListFavorites returns is a consistent
\* snapshot of one contact: its name, address and methods are those of one
\* committed state of the database, also when an Update or Delete of the
\* contact commits between the read of contacts and the read of its methods.
C18_ListedEntriesAreSnapshots ==
    \A t \in Answered("get_contacts", 200) \cup Answered("get_favorites", 200) :
        \A i \in 1..Len(threads[t].result.result) :
            ConsistentEntry(threads[t].result.result[i])

====
